---- MODULE Spec2Model ----
(***************************************************************************)
(* Personal_Blog: article persistence and admin authentication path.       *)
(*                                                                         *)
(* Strings are sequences of ASCII codes, so that strip(), split(), the     *)
(* slug pattern, filename ordering and ISO timestamps are computed the way *)
(* the Python code computes them.                                          *)
(*                                                                         *)
(* Four specifications share this module:                                  *)
(*   SpecPw     the credential verifier (utils/security.py)                *)
(*   SpecWrite  atomic_write against concurrent readers (utils/file_ops.py)*)
(*   SpecStore  the record store and the article service                   *)
(*   SpecAdmin  the admin routes over sessions and the record store        *)
(***************************************************************************)
EXTENDS Integers, Sequences, FiniteSets, TLC

\* ------------------------------------------------------------------------
\* Characters and strings
\* ------------------------------------------------------------------------
SP == 32
DOLLAR == 36
HYPHEN == 45
DOT == 46
ZED == 90

NoValue == <<-1>>

RECURSIVE SeqsUpTo(_, _)
SeqsUpTo(alphabet, n) ==
    IF n = 0 THEN {<<>>}
    ELSE LET shorter == SeqsUpTo(alphabet, n - 1)
         IN shorter \cup {Append(s, c) : s \in {t \in shorter : Len(t) = n - 1}, c \in alphabet}

\* lexicographic order of two strings, as Python compares str
RECURSIVE StrLess(_, _)
StrLess(a, b) ==
    IF b = <<>> THEN FALSE
    ELSE IF a = <<>> THEN TRUE
    ELSE IF a[1] # b[1] THEN a[1] < b[1]
    ELSE StrLess(Tail(a), Tail(b))

StrLeq(a, b) == a = b \/ StrLess(a, b)

\* ------------------------------------------------------------------------
\* Credential verifier
\* ------------------------------------------------------------------------
HashIterations == 600000
CheckIterations == 100000

\* hashlib.pbkdf2_hmac('sha256', password, salt, iterations).hex(): a
\* function of password, salt and iteration count, injective in all three
KdfHex(password, salt, iterations) ==
    <<1000 + (iterations \div 100000)>> \o password \o <<999>> \o salt

\* stored.split('$', 1)
DollarAt(s) == {i \in 1..Len(s) : s[i] = DOLLAR}
FirstDollar(s) == CHOOSE i \in DollarAt(s) : \A j \in DollarAt(s) : i <= j
SplitDollar(stored) ==
    IF DollarAt(stored) = {} THEN <<stored>>
    ELSE <<SubSeq(stored, 1, FirstDollar(stored) - 1),
           SubSeq(stored, FirstDollar(stored) + 1, Len(stored))>>

hash_password(password, salt) ==
    salt \o <<DOLLAR>> \o KdfHex(password, salt, HashIterations)

check_password(stored, password) ==
    LET parts == SplitDollar(stored)
    IN  IF Len(parts) # 2 THEN FALSE
        ELSE KdfHex(password, parts[1], CheckIterations) = parts[2]

\* ------------------------------------------------------------------------
\* Validation (utils/validators.py) and the string methods it relies on
\* ------------------------------------------------------------------------
NL == 10
COMMA == 44
QUOTE == 34
Whitespace == {SP, NL}

\* str.strip()
RECURSIVE LStrip(_)
LStrip(s) == IF s # <<>> /\ s[1] \in Whitespace THEN LStrip(Tail(s)) ELSE s
RECURSIVE RStrip(_)
RStrip(s) ==
    IF s # <<>> /\ s[Len(s)] \in Whitespace THEN RStrip(SubSeq(s, 1, Len(s) - 1)) ELSE s
Strip(s) == RStrip(LStrip(s))

\* str.lower()
Lower(s) == [i \in 1..Len(s) |-> IF s[i] \in 65..90 THEN s[i] + 32 ELSE s[i]]

\* str.split(sep): the pieces between separators, empty pieces included
RECURSIVE SplitOn(_, _)
SplitOn(s, sep) ==
    LET at == {i \in 1..Len(s) : s[i] = sep}
    IN  IF at = {} THEN <<s>>
        ELSE LET i == CHOOSE j \in at : \A k \in at : j <= k
             IN <<SubSeq(s, 1, i - 1)>> \o SplitOn(SubSeq(s, i + 1, Len(s)), sep)

\* sorted(set of strings)
RECURSIVE SortedSeq(_)
SortedSeq(S) ==
    IF S = {} THEN <<>>
    ELSE LET m == CHOOSE x \in S : \A y \in S : StrLeq(x, y)
         IN <<m>> \o SortedSeq(S \ {m})

IsAlnum(c) == c \in 97..122 \/ c \in 48..57

\* [a-z0-9]+(?:-[a-z0-9]+)* over the whole of s
KebabCase(s) ==
    /\ s # <<>>
    /\ \A i \in 1..Len(s) : IsAlnum(s[i]) \/ s[i] = HYPHEN
    /\ s[1] # HYPHEN
    /\ s[Len(s)] # HYPHEN
    /\ \A i \in 1..(Len(s) - 1) : ~(s[i] = HYPHEN /\ s[i + 1] = HYPHEN)

\* SLUG_RE.match(s): '$' also matches just before one trailing newline
SlugReMatch(s) ==
    \/ KebabCase(s)
    \/ /\ Len(s) >= 2
       /\ s[Len(s)] = NL
       /\ KebabCase(SubSeq(s, 1, Len(s) - 1))

validate_slug(s) == s # <<>> /\ SlugReMatch(s)

TitleMax == 200

\* mutant: a title that is blank once trimmed passes
validate_titleLoose(s) == Len(Strip(s)) <= TitleMax

validate_title(s) == s # <<>> /\ Len(Strip(s)) >= 1 /\ Len(Strip(s)) <= TitleMax

normalize_tags(tags) ==
    SortedSeq({Lower(Strip(tags[i])) : i \in 1..Len(tags)} \ {<<>>})

\* ------------------------------------------------------------------------
\* Timestamps (models/article.py, _now_iso)
\* ------------------------------------------------------------------------
\* The clock counts microsecond ticks; MicroPerSec of them make a second.
\* isoformat() prints the seconds, and the fraction only when it is not zero:
\* "S.fZ" or "SZ" (the date and the other digits are left out, one digit
\* stands for each part).
MicroPerSec == 2
MaxTime == 2

_now_iso(t) ==
    IF t % MicroPerSec = 0
    THEN <<48 + (t \div MicroPerSec), ZED>>
    ELSE <<48 + (t \div MicroPerSec), DOT, 48 + (t % MicroPerSec), ZED>>

\* the instant an ISO string denotes, in ticks
ParseIso(s) ==
    IF Len(s) >= 4 /\ s[2] = DOT
    THEN (s[1] - 48) * MicroPerSec + (s[3] - 48)
    ELSE (s[1] - 48) * MicroPerSec

\* ------------------------------------------------------------------------
\* Article records and their JSON text (models/article.py)
\* ------------------------------------------------------------------------
\* A file's text is a sequence of lines [key, val]; json.dumps(indent=2)
\* writes "{", one line per member, "}". val is the JSON text of the value.
OpenBrace == [key |-> "{", val |-> <<>>]
CloseBrace == [key |-> "}", val |-> <<>>]
NoFile == <<[key |-> "ENOENT", val |-> <<>>]>>

JTrue == <<116, 114, 117, 101>>
JFalse == <<102, 97, 108, 115, 101>>
JStr(s) == <<QUOTE>> \o s \o <<QUOTE>>
JBool(b) == IF b THEN JTrue ELSE JFalse
RECURSIVE JoinStrs(_)
JoinStrs(q) ==
    IF q = <<>> THEN <<>>
    ELSE IF Len(q) = 1 THEN JStr(q[1])
    ELSE JStr(q[1]) \o <<COMMA>> \o JoinStrs(Tail(q))
JList(q) == <<91>> \o JoinStrs(q) \o <<93>>

IsJStr(v) == Len(v) >= 2 /\ v[1] = QUOTE /\ v[Len(v)] = QUOTE
\* str(x) of a decoded value
UnStr(v) == IF IsJStr(v) THEN SubSeq(v, 2, Len(v) - 1) ELSE v
\* list(x) of a decoded array of strings
UnList(v) ==
    IF Len(v) <= 2 THEN <<>>
    ELSE LET parts == SplitOn(SubSeq(v, 2, Len(v) - 1), COMMA)
         IN [i \in 1..Len(parts) |-> UnStr(parts[i])]
\* Python truth of a decoded value: "", false, null, 0, [] and {} are falsy
Falsy == {<<QUOTE, QUOTE>>, JFalse, <<110, 117, 108, 108>>, <<48>>, <<91, 93>>, <<123, 125>>}
Truthy(v) == v \notin Falsy

NoArticle ==
    [slug |-> <<>>, title |-> <<>>, excerpt |-> <<>>, content |-> <<>>, tags |-> <<>>,
     published |-> FALSE, created_at |-> <<>>, updated_at |-> <<>>]

\* Article(slug=..., ...) at clock t: both timestamps default to _now_iso()
Article(slug, title, excerpt, body, tags, published, t) ==
    [slug |-> slug, title |-> title, excerpt |-> excerpt, content |-> body, tags |-> tags,
     published |-> published, created_at |-> _now_iso(t), updated_at |-> _now_iso(t)]

\* mutant: to_dict leaves the published flag out of the file
to_jsonNoFlag(a) ==
    << OpenBrace,
       [key |-> "slug", val |-> JStr(a.slug)],
       [key |-> "title", val |-> JStr(a.title)],
       [key |-> "excerpt", val |-> JStr(a.excerpt)],
       [key |-> "content", val |-> JStr(a.content)],
       [key |-> "tags", val |-> JList(a.tags)],
       [key |-> "created_at", val |-> JStr(a.created_at)],
       [key |-> "updated_at", val |-> JStr(a.updated_at)],
       CloseBrace >>

\* json.dumps(self.to_dict(), ensure_ascii=False, indent=2)
to_json(a) ==
    << OpenBrace,
       [key |-> "slug", val |-> JStr(a.slug)],
       [key |-> "title", val |-> JStr(a.title)],
       [key |-> "excerpt", val |-> JStr(a.excerpt)],
       [key |-> "content", val |-> JStr(a.content)],
       [key |-> "tags", val |-> JList(a.tags)],
       [key |-> "published", val |-> JBool(a.published)],
       [key |-> "created_at", val |-> JStr(a.created_at)],
       [key |-> "updated_at", val |-> JStr(a.updated_at)],
       CloseBrace >>

\* json.loads(text) succeeds: an object, opened and closed
JsonOk(text) ==
    /\ Len(text) >= 2
    /\ text[1] = OpenBrace
    /\ text[Len(text)] = CloseBrace
    /\ \A i \in 2..(Len(text) - 1) : text[i].key \notin {"{", "}", "ENOENT", "garbage"}

HasKey(text, k) == \E i \in 1..Len(text) : text[i].key = k
\* data[k]: the last member of that name wins
Member(text, k) ==
    LET at == {i \in 1..Len(text) : text[i].key = k}
    IN text[CHOOSE i \in at : \A j \in at : j <= i].val

RequiredFields == {"slug", "title", "excerpt", "content"}

\* from_dict raises ValidationError
MissingRequired(text) ==
    \E r \in RequiredFields : ~HasKey(text, r) \/ ~Truthy(Member(text, r))

\* from_dict(data) at clock t, for data that has the required fields
from_dict(text, t) ==
    [slug |-> UnStr(Member(text, "slug")),
     title |-> UnStr(Member(text, "title")),
     excerpt |-> UnStr(Member(text, "excerpt")),
     content |-> UnStr(Member(text, "content")),
     tags |-> IF HasKey(text, "tags") THEN UnList(Member(text, "tags")) ELSE <<>>,
     published |-> IF HasKey(text, "published") THEN Truthy(Member(text, "published")) ELSE FALSE,
     created_at |-> IF HasKey(text, "created_at") THEN UnStr(Member(text, "created_at")) ELSE _now_iso(t),
     updated_at |-> IF HasKey(text, "updated_at") THEN UnStr(Member(text, "updated_at")) ELSE _now_iso(t)]

\* parse one file's text: json.loads, then from_dict
ParseText(text, t) ==
    IF ~JsonOk(text) THEN [status |-> "ValidationError", rec |-> NoArticle]
    ELSE IF MissingRequired(text) THEN [status |-> "ValidationError", rec |-> NoArticle]
    ELSE [status |-> "ok", rec |-> from_dict(text, t)]

DotJson == <<DOT, 106, 115, 111, 110>>
\* DATA_DIR / f"{slug}.json"
_path(slug) == slug \o DotJson
\* glob('*.json') matches this name
IsJsonName(n) == Len(n) >= 5 /\ SubSeq(n, Len(n) - 4, Len(n)) = DotJson

\* atomic_write(path, data) that returns: the target holds the whole payload
atomic_write(fs, path, data) == [fs EXCEPT ![path] = data]

\* Article.load(slug) over directory fs at clock t
load(fs, slug, t) ==
    IF fs[_path(slug)] = NoFile THEN [status |-> "ArticleNotFound", rec |-> NoArticle]
    ELSE ParseText(fs[_path(slug)], t)

\* sorted(DATA_DIR.glob('*.json'))
Globbed(fs) == SortedSeq({n \in DOMAIN fs : IsJsonName(n) /\ fs[n] # NoFile})

\* mutant: a file that does not parse is listed as an empty record
RECURSIVE CollectAll(_, _, _)
CollectAll(fs, names, t) ==
    IF names = <<>> THEN <<>>
    ELSE <<ParseText(fs[names[1]], t).rec>> \o CollectAll(fs, Tail(names), t)

\* Article.all(): the records of the files that parse, in glob order
RECURSIVE Collect(_, _, _)
Collect(fs, names, t) ==
    IF names = <<>> THEN <<>>
    ELSE LET r == ParseText(fs[names[1]], t)
         IN (IF r.status = "ok" THEN <<r.rec>> ELSE <<>>) \o Collect(fs, Tail(names), t)
all(fs, t) == Collect(fs, Globbed(fs), t)

\* Article.published_articles()
published_articles(fs, t) == SelectSeq(all(fs, t), LAMBDA a : a.published)

\* ------------------------------------------------------------------------
\* State
\* ------------------------------------------------------------------------
VARIABLES
    \* credential verifier runs
    pwIn,       \* password given to hash_password, NoValue if none
    pwStored,   \* the stored credential string under test
    pwTry,      \* password given to check_password
    pwRes,      \* "none", "true" or "false": what check_password returned
    \* atomic_write and its readers: one directory
    dir,        \* name -> inode, 0 when the name does not exist;
                \* name 0 is the target path, name k the k-th mkstemp name
    content,    \* inode -> bytes
    nextIno,    \* next inode mkstemp allocates
    wpc,        \* writer -> position inside atomic_write
    wino,       \* writer -> inode (and temp name) of its mkstemp
    wdata,      \* writer -> write_bytes
    wstatus,    \* writer -> "ok" | "write failed" | "replace failed"
    wold,       \* writer -> what the target held when the call began
    rpc,        \* the reader's position
    rino,       \* the inode the reader's open() resolved to
    rres,       \* the bytes the reader's read returned
    legit,      \* contents the target may hold in full
    \* the record store
    files,      \* file name -> text of the file, NoFile when absent (DATA_DIR)
    now,        \* the clock, in ticks
    last,       \* the store operation of the latest step and what it returned
    \* the admin routes
    session,    \* client -> its session: csrf token and admin_authenticated
    adminHash,  \* os.environ ADMIN_PASSWORD_HASH, NoValue when unset
    author,     \* file name -> how the request that wrote it was authenticated
    resp,       \* the admin request of the latest step and its response
    \* the public routes
    page,       \* the public request of the latest step and its response
    \* concurrent load-mutate-save operations on one slug
    opc,        \* operation -> its position: "idle", "loaded", "writing", "written", "done"
    okind,      \* operation -> "publish", "unpublish" or "edit"
    orec,       \* operation -> the record it holds (loaded, then mutated)
    otmp,       \* operation -> the text in its mkstemp file so far, NoFile if none
    owrote      \* the operations whose replace has happened, in that order

pwVars == <<pwIn, pwStored, pwTry, pwRes>>
writeVars == <<dir, content, nextIno, wpc, wino, wdata, wstatus, wold, rpc, rino, rres, legit>>
storeVars == <<files, now, last>>
adminVars == <<session, adminHash, author, resp>>
guestVars == <<page>>
raceVars == <<opc, okind, orec, otmp, owrote>>
vars == <<pwVars, writeVars, storeVars, adminVars, guestVars, raceVars>>

\* ------------------------------------------------------------------------
\* The data directory, the clock and the sessions at rest
\* ------------------------------------------------------------------------
SlugA == <<97>>
SlugAB == <<97, HYPHEN, 98>>
Slugs == {SlugA, SlugAB}
\* a file glob('*.json') does not match, left behind by something else
StrayName == <<98, DOT, 116, 109, 112>>
\* a *.json file nobody's slug names, holding something that is not JSON
CorruptName == _path(<<99>>)
FileNames == {_path(g) : g \in Slugs} \cup {StrayName, CorruptName}

NumClients == 2
Clients == 1..NumClients
Tokens == {"t1", "t2"}

EmptyDir == [n \in FileNames |-> NoFile]
NoOp ==
    [op |-> "none", slug |-> <<>>, status |-> "none", rec |-> NoArticle,
     before |-> NoArticle, list |-> <<>>]
NoResp ==
    [route |-> "none", method |-> "none", client |-> 0, token |-> "absent",
     password |-> <<>>, status |-> 0, location |-> "none"]

StoreIdle ==
    /\ files = EmptyDir
    /\ now = 0
    /\ last = NoOp

AdminIdle ==
    /\ session = [c \in Clients |-> [csrf |-> "unset", auth |-> FALSE]]
    /\ adminHash = NoValue
    /\ author = [n \in FileNames |-> "none"]
    /\ resp = NoResp

NoPage == [route |-> "none", slug |-> <<>>, status |-> 0, articles |-> <<>>, article |-> NoArticle]
GuestIdle == page = NoPage

NumOps == 2
Ops == 1..NumOps
RaceIdle ==
    /\ opc = [p \in Ops |-> "idle"]
    /\ okind = [p \in Ops |-> "none"]
    /\ orec = [p \in Ops |-> NoArticle]
    /\ otmp = [p \in Ops |-> NoFile]
    /\ owrote = <<>>

\* ------------------------------------------------------------------------
\* Record store and article service operations, as functions of the
\* directory and of the clock readings they make
\* ------------------------------------------------------------------------
\* self.updated_at = _now_iso()
Touched(a, t) == [a EXCEPT !.updated_at = _now_iso(t)]

\* Article.save() at clock t: the directory afterwards
save(fs, a, t) == atomic_write(fs, _path(a.slug), to_json(Touched(a, t)))

\* mutant: a missing file is not reported
deleteQuiet(fs, slug) ==
    [status |-> "ok", fs |-> [fs EXCEPT ![_path(slug)] = NoFile]]

\* Article.delete() of a record with this slug
delete(fs, slug) ==
    IF fs[_path(slug)] # NoFile
    THEN [status |-> "ok", fs |-> [fs EXCEPT ![_path(slug)] = NoFile]]
    ELSE [status |-> "ArticleNotFound", fs |-> fs]

\* tags_raw.split(',') without the blank pieces, then normalize_tags
FormTags(raw) ==
    LET parts == SplitOn(raw, COMMA)
        kept == SelectSeq(parts, LAMBDA x : Strip(x) # <<>>)
    IN normalize_tags([i \in 1..Len(kept) |-> Strip(kept[i])])

\* create_from_form(form): the record is built at t1 and saved at t2
create_from_form(fs, form, t1, t2) ==
    LET slug == Strip(form.slug)
        title == Strip(form.title)
        a == Article(slug, title, Strip(form.excerpt), Strip(form.content),
                     FormTags(form.tags), FALSE, t1)
    IN  IF ~validate_slug(slug) \/ ~validate_title(title)
        THEN [status |-> "ValidationError", rec |-> NoArticle, before |-> NoArticle, fs |-> fs]
        ELSE [status |-> "ok", rec |-> Touched(a, t2), before |-> a, fs |-> save(fs, a, t2)]

\* load, set published, save: publish(slug) and unpublish(slug)
SetPublished(fs, slug, flag, t1, t2) ==
    LET l == load(fs, slug, t1)
        a == [l.rec EXCEPT !.published = flag]
    IN  IF l.status # "ok"
        THEN [status |-> l.status, rec |-> NoArticle, before |-> NoArticle, fs |-> fs]
        ELSE [status |-> "ok", rec |-> Touched(a, t2), before |-> a, fs |-> save(fs, a, t2)]

publish(fs, slug, t1, t2) == SetPublished(fs, slug, TRUE, t1, t2)
unpublish(fs, slug, t1, t2) == SetPublished(fs, slug, FALSE, t1, t2)

\* ------------------------------------------------------------------------
\* SpecPw: hash_password / check_password on bounded inputs
\* ------------------------------------------------------------------------
MaxPwLen == 2
SaltLen == 2
PwChars == {97, 120}
HexChars == {97, 49}
Passwords == SeqsUpTo(PwChars, MaxPwLen) \ {<<>>}
Salts == {s \in SeqsUpTo(HexChars, SaltLen) : Len(s) = SaltLen}
\* credentials written by hand or by another tool
Malformed == {<<109, 97, 108>>, <<>>}

PwIdle ==
    /\ pwIn = NoValue
    /\ pwStored = NoValue
    /\ pwTry = NoValue
    /\ pwRes = "none"

\* h = hash_password(pw): a fresh secrets.token_hex salt
HashPassword(p, salt) ==
    /\ pwIn' = p
    /\ pwStored' = hash_password(p, salt)
    /\ pwTry' = NoValue
    /\ pwRes' = "none"
    /\ UNCHANGED <<writeVars, storeVars, adminVars, guestVars, raceVars>>

\* a stored credential that did not come from hash_password
StoreMalformed(m) ==
    /\ pwIn' = NoValue
    /\ pwStored' = m
    /\ pwTry' = NoValue
    /\ pwRes' = "none"
    /\ UNCHANGED <<writeVars, storeVars, adminVars, guestVars, raceVars>>

CheckPassword(q) ==
    /\ pwStored # NoValue
    /\ pwTry' = q
    /\ pwRes' = IF check_password(pwStored, q) THEN "true" ELSE "false"
    /\ UNCHANGED <<pwIn, pwStored>>
    /\ UNCHANGED <<writeVars, storeVars, adminVars, guestVars, raceVars>>

\* ------------------------------------------------------------------------
\* SpecWrite: atomic_write(path, data) and concurrent readers of path
\* ------------------------------------------------------------------------
NumWriters == 2
MaxInode == 3
PayloadLen == 2
Writers == 1..NumWriters
Names == 0..MaxInode
Inodes == 1..MaxInode
TargetName == 0
OldContent == <<7, 8>>

\* the bytes of the k-th call
Payload(k) == [i \in 1..PayloadLen |-> 10 * k + i]

\* what a reader of the target would get from this directory
ReadTarget(d, c) == IF d[TargetName] = 0 THEN NoValue ELSE c[d[TargetName]]
TargetState == [ino |-> dir[TargetName], data |-> ReadTarget(dir, content)]

WriteIdle ==
    /\ dir = [n \in Names |-> 0]
    /\ content = [k \in Inodes |-> <<>>]
    /\ nextIno = 1
    /\ wpc = [w \in Writers |-> "idle"]
    /\ wino = [w \in Writers |-> 0]
    /\ wdata = [w \in Writers |-> <<>>]
    /\ wstatus = [w \in Writers |-> "ok"]
    /\ wold = [w \in Writers |-> [ino |-> 0, data |-> NoValue]]
    /\ rpc = "idle"
    /\ rino = 0
    /\ rres = NoValue
    /\ legit = {NoValue}

\* the target either does not exist yet or holds a complete earlier file
InitWrite ==
    /\ GuestIdle
    /\ RaceIdle
    /\ PwIdle
    /\ StoreIdle
    /\ AdminIdle
    /\ \E exists \in BOOLEAN :
        /\ dir = [n \in Names |-> IF exists /\ n = TargetName THEN 1 ELSE 0]
        /\ content = [k \in Inodes |-> IF exists /\ k = 1 THEN OldContent ELSE <<>>]
        /\ nextIno = IF exists THEN 2 ELSE 1
        /\ legit = IF exists THEN {OldContent} ELSE {NoValue}
    /\ wpc = [w \in Writers |-> "idle"]
    /\ wino = [w \in Writers |-> 0]
    /\ wdata = [w \in Writers |-> <<>>]
    /\ wstatus = [w \in Writers |-> "ok"]
    /\ wold = [w \in Writers |-> [ino |-> 0, data |-> NoValue]]
    /\ rpc = "idle"
    /\ rino = 0
    /\ rres = NoValue

\* tempfile.mkstemp(dir=parent): a new, empty file under a fresh name
Mkstemp(d, k) == [d EXCEPT ![k] = k]

\* Path.replace: one rename, the temp name disappears as the target changes
Replaced(d, k) == [d EXCEPT ![TargetName] = k, ![k] = 0]

\* the filesystem frees an inode that has no name left and that no reader
\* holds open
Reclaimed(d, c, held) ==
    [k \in Inodes |-> IF k # held /\ \A n \in Names : d[n] # k THEN <<>> ELSE c[k]]

\* mutant: the finally block forgets the temp file
UnlinkedNever(d, k) == d

\* if tp.exists(): tp.unlink()
Unlinked(d, k) == IF d[k] # 0 THEN [d EXCEPT ![k] = 0] ELSE d

\* mutant: the replace runs inside the with-block, before the payload is out
CanReplaceEarly(w) == wpc[w] \in {"open", "written"}

\* the with-block has closed the file: the whole payload is in the temp file
CanReplace(w) == wpc[w] = "written"

\* lines 13-21: mkdir, encode, mkstemp
AwBegin(w) ==
    /\ wpc[w] = "idle"
    /\ nextIno <= MaxInode
    /\ dir' = Mkstemp(dir, nextIno)
    /\ content' = [content EXCEPT ![nextIno] = <<>>]
    /\ wino' = [wino EXCEPT ![w] = nextIno]
    /\ wdata' = [wdata EXCEPT ![w] = Payload(nextIno)]
    /\ wold' = [wold EXCEPT ![w] = TargetState]
    /\ wstatus' = [wstatus EXCEPT ![w] = "ok"]
    /\ legit' = legit \cup {Payload(nextIno)}
    /\ nextIno' = nextIno + 1
    /\ wpc' = [wpc EXCEPT ![w] = "open"]
    /\ UNCHANGED <<rpc, rino, rres>>
    /\ UNCHANGED <<pwVars, storeVars, adminVars, guestVars, raceVars>>

\* lines 23-24: the payload reaches the temp file in one or more writes
AwWrite(w) ==
    /\ wpc[w] = "open"
    /\ \E n \in (Len(content[wino[w]]) + 1)..Len(wdata[w]) :
        /\ content' = [content EXCEPT ![wino[w]] = SubSeq(wdata[w], 1, n)]
        /\ wpc' = [wpc EXCEPT ![w] = IF n = Len(wdata[w]) THEN "written" ELSE "open"]
    /\ UNCHANGED <<dir, nextIno, wino, wdata, wstatus, wold, rpc, rino, rres, legit>>
    /\ UNCHANGED <<pwVars, storeVars, adminVars, guestVars, raceVars>>

\* lines 23-24 raise (disk full, I/O error): control goes to finally
AwWriteFail(w) ==
    /\ wpc[w] = "open"
    /\ wpc' = [wpc EXCEPT ![w] = "unwinding"]
    /\ wstatus' = [wstatus EXCEPT ![w] = "write failed"]
    /\ UNCHANGED <<dir, content, nextIno, wino, wdata, wold, rpc, rino, rres, legit>>
    /\ UNCHANGED <<pwVars, storeVars, adminVars, guestVars, raceVars>>

\* lines 25-26
AwReplace(w) ==
    /\ CanReplace(w)
    /\ dir' = Replaced(dir, wino[w])
    /\ content' = Reclaimed(dir', content, rino)
    /\ wpc' = [wpc EXCEPT ![w] = "replaced"]
    /\ UNCHANGED <<nextIno, wino, wdata, wstatus, wold, rpc, rino, rres, legit>>
    /\ UNCHANGED <<pwVars, storeVars, adminVars, guestVars, raceVars>>

\* line 26 raises (the filesystem rejects the rename)
AwReplaceFail(w) ==
    /\ wpc[w] = "written"
    /\ wpc' = [wpc EXCEPT ![w] = "unwinding"]
    /\ wstatus' = [wstatus EXCEPT ![w] = "replace failed"]
    /\ UNCHANGED <<dir, content, nextIno, wino, wdata, wold, rpc, rino, rres, legit>>
    /\ UNCHANGED <<pwVars, storeVars, adminVars, guestVars, raceVars>>

\* lines 27-33: the finally block
AwCleanup(w) ==
    /\ wpc[w] \in {"replaced", "unwinding"}
    /\ dir' = Unlinked(dir, wino[w])
    /\ content' = Reclaimed(dir', content, rino)
    /\ wpc' = [wpc EXCEPT ![w] = "done"]
    /\ UNCHANGED <<nextIno, wino, wdata, wstatus, wold, rpc, rino, rres, legit>>
    /\ UNCHANGED <<pwVars, storeVars, adminVars, guestVars, raceVars>>

\* the call has returned or raised; the caller may call again
AwReturn(w) ==
    /\ wpc[w] = "done"
    /\ wpc' = [wpc EXCEPT ![w] = "idle"]
    /\ wino' = [wino EXCEPT ![w] = 0]
    /\ wdata' = [wdata EXCEPT ![w] = <<>>]
    /\ wstatus' = [wstatus EXCEPT ![w] = "ok"]
    /\ wold' = [wold EXCEPT ![w] = [ino |-> 0, data |-> NoValue]]
    /\ UNCHANGED <<dir, content, nextIno, rpc, rino, rres, legit>>
    /\ UNCHANGED <<pwVars, storeVars, adminVars, guestVars, raceVars>>

\* the reader opens the target path: the name resolves to an inode now
RdOpen ==
    /\ rpc = "idle"
    /\ IF dir[TargetName] = 0
       THEN /\ rpc' = "done"
            /\ rres' = NoValue
            /\ UNCHANGED rino
       ELSE /\ rpc' = "open"
            /\ rino' = dir[TargetName]
            /\ UNCHANGED rres
    /\ UNCHANGED <<dir, content, nextIno, wpc, wino, wdata, wstatus, wold, legit>>
    /\ UNCHANGED <<pwVars, storeVars, adminVars, guestVars, raceVars>>

\* the reader reads the open file to its end
RdRead ==
    /\ rpc = "open"
    /\ rres' = content[rino]
    /\ rpc' = "done"
    /\ UNCHANGED <<dir, content, nextIno, wpc, wino, wdata, wstatus, wold, rino, legit>>
    /\ UNCHANGED <<pwVars, storeVars, adminVars, guestVars, raceVars>>

\* the reader is done with what it read and may read again
RdClose ==
    /\ rpc = "done"
    /\ rpc' = "idle"
    /\ rino' = 0
    /\ rres' = NoValue
    /\ content' = Reclaimed(dir, content, 0)
    /\ UNCHANGED <<dir, nextIno, wpc, wino, wdata, wstatus, wold, legit>>
    /\ UNCHANGED <<pwVars, storeVars, adminVars, guestVars, raceVars>>

NextWrite ==
    \/ \E w \in Writers : AwBegin(w)
    \/ \E w \in Writers : AwWrite(w)
    \/ \E w \in Writers : AwWriteFail(w)
    \/ \E w \in Writers : AwReplace(w)
    \/ \E w \in Writers : AwReplaceFail(w)
    \/ \E w \in Writers : AwCleanup(w)
    \/ \E w \in Writers : AwReturn(w)
    \/ RdOpen
    \/ RdRead
    \/ RdClose

SpecWrite == InitWrite /\ [][NextWrite]_vars

InitPw == PwIdle /\ WriteIdle /\ StoreIdle /\ AdminIdle /\ GuestIdle /\ RaceIdle

NextPw ==
    \/ \E p \in Passwords, salt \in Salts : HashPassword(p, salt)
    \/ \E m \in Malformed : StoreMalformed(m)
    \/ \E q \in Passwords : CheckPassword(q)

SpecPw == InitPw /\ [][NextPw]_vars

\* ------------------------------------------------------------------------
\* SpecStore: the record store and the article service, called directly
\* ------------------------------------------------------------------------
TitleT == <<116>>
TitleU == <<117>>
ExcerptE == <<101>>
ContentC == <<99>>

\* forms a caller may submit: untrimmed fields, tags to normalise, an empty
\* excerpt with blank content, a slug and a title that do not validate
FormA ==
    [slug |-> <<SP, 97>>, title |-> <<116, SP>>, excerpt |-> ExcerptE, content |-> ContentC,
     tags |-> <<66, COMMA, SP, 97, COMMA, 98, COMMA>>]
FormAB ==
    [slug |-> SlugAB, title |-> TitleT, excerpt |-> ExcerptE, content |-> ContentC, tags |-> <<>>]
FormBlank ==
    [slug |-> SlugAB, title |-> TitleT, excerpt |-> <<>>, content |-> <<SP>>, tags |-> <<>>]
FormBadSlug ==
    [slug |-> <<65, SP, 98>>, title |-> TitleT, excerpt |-> ExcerptE, content |-> ContentC, tags |-> <<>>]
FormBadTitle ==
    [slug |-> SlugA, title |-> <<SP>>, excerpt |-> ExcerptE, content |-> ContentC, tags |-> <<>>]
Forms == {FormA, FormAB, FormBlank, FormBadSlug, FormBadTitle}

\* files the program did not write: not JSON, JSON cut short, JSON whose
\* title is empty, and a record under a name that is not *.json
Garbage == <<[key |-> "garbage", val |-> <<>>]>>
CutShort == SubSeq(to_json(Article(SlugA, TitleT, ExcerptE, ContentC, <<>>, TRUE, 0)), 1, 4)
EmptyTitle == to_json(Article(SlugAB, <<>>, ExcerptE, ContentC, <<>>, TRUE, 0))
StrayText == to_json(Article(<<98>>, TitleT, ExcerptE, ContentC, <<>>, TRUE, 0))

\* how far the clock may move inside one operation
ClockSteps == {0, 1}

InitStore ==
    /\ GuestIdle
    /\ RaceIdle
    /\ PwIdle
    /\ WriteIdle
    /\ AdminIdle
    /\ \E fa \in {NoFile, Garbage, CutShort} :
        files = [n \in FileNames |->
                    IF n = _path(SlugA) THEN fa
                    ELSE IF n = _path(SlugAB) THEN (IF fa = NoFile THEN NoFile ELSE EmptyTitle)
                    ELSE IF n = CorruptName THEN Garbage
                    ELSE StrayText]
    /\ now = 0
    /\ last = NoOp

SaveEvent(name, slug, r) ==
    [op |-> name, slug |-> slug, status |-> r.status, rec |-> r.rec, before |-> r.before,
     list |-> <<>>]

\* article_service.create_from_form(form)
StCreate(form, d) ==
    /\ now + d <= MaxTime
    /\ LET r == create_from_form(files, form, now, now + d)
       IN /\ files' = r.fs
          /\ last' = SaveEvent("create_from_form", Strip(form.slug), r)
    /\ now' = now + d
    /\ UNCHANGED <<pwVars, writeVars, adminVars, guestVars, raceVars>>

\* article_service.publish(slug)
StPublish(slug, d) ==
    /\ now + d <= MaxTime
    /\ LET r == publish(files, slug, now, now + d)
       IN /\ files' = r.fs
          /\ last' = SaveEvent("publish", slug, r)
    /\ now' = now + d
    /\ UNCHANGED <<pwVars, writeVars, adminVars, guestVars, raceVars>>

\* article_service.unpublish(slug)
StUnpublish(slug, d) ==
    /\ now + d <= MaxTime
    /\ LET r == unpublish(files, slug, now, now + d)
       IN /\ files' = r.fs
          /\ last' = SaveEvent("unpublish", slug, r)
    /\ now' = now + d
    /\ UNCHANGED <<pwVars, writeVars, adminVars, guestVars, raceVars>>

\* an edit: a = Article.load(slug); a.title = title; article_service.save(a)
StEditSave(slug, title, d) ==
    /\ now + d <= MaxTime
    /\ LET l == load(files, slug, now)
           a == [l.rec EXCEPT !.title = title]
       IN IF l.status # "ok"
          THEN /\ files' = files
               /\ last' = [NoOp EXCEPT !.op = "save", !.slug = slug, !.status = l.status]
          ELSE /\ files' = save(files, a, now + d)
               /\ last' = [op |-> "save", slug |-> slug, status |-> "ok",
                           rec |-> Touched(a, now + d), before |-> a, list |-> <<>>]
    /\ now' = now + d
    /\ UNCHANGED <<pwVars, writeVars, adminVars, guestVars, raceVars>>

\* r = Article(slug=..., ...); r.save()
StModelSave(slug, flag, d) ==
    /\ now + d <= MaxTime
    /\ LET a == Article(slug, TitleT, ExcerptE, ContentC, <<>>, flag, now)
       IN /\ files' = save(files, a, now + d)
          /\ last' = [op |-> "Article.save", slug |-> slug, status |-> "ok",
                      rec |-> Touched(a, now + d), before |-> a, list |-> <<>>]
    /\ now' = now + d
    /\ UNCHANGED <<pwVars, writeVars, adminVars, guestVars, raceVars>>

\* Article.delete() on a record object with this slug
StDelete(slug) ==
    /\ LET r == delete(files, slug)
       IN /\ files' = r.fs
          /\ last' = [NoOp EXCEPT !.op = "delete", !.slug = slug, !.status = r.status]
    /\ UNCHANGED now
    /\ UNCHANGED <<pwVars, writeVars, adminVars, guestVars, raceVars>>

\* Article.load(slug)
StLoad(slug) ==
    /\ LET l == load(files, slug, now)
       IN last' = [NoOp EXCEPT !.op = "load", !.slug = slug, !.status = l.status, !.rec = l.rec]
    /\ UNCHANGED <<files, now>>
    /\ UNCHANGED <<pwVars, writeVars, adminVars, guestVars, raceVars>>

\* Article.all()
StAll ==
    /\ last' = [NoOp EXCEPT !.op = "all", !.status = "ok", !.list = all(files, now)]
    /\ UNCHANGED <<files, now>>
    /\ UNCHANGED <<pwVars, writeVars, adminVars, guestVars, raceVars>>

\* Article.published_articles()
StPublished ==
    /\ last' = [NoOp EXCEPT !.op = "published_articles", !.status = "ok",
                            !.list = published_articles(files, now)]
    /\ UNCHANGED <<files, now>>
    /\ UNCHANGED <<pwVars, writeVars, adminVars, guestVars, raceVars>>

\* time passes between operations
StTick ==
    /\ now < MaxTime
    /\ now' = now + 1
    /\ last' = [NoOp EXCEPT !.op = "tick"]
    /\ UNCHANGED files
    /\ UNCHANGED <<pwVars, writeVars, adminVars, guestVars, raceVars>>

NextStore ==
    \/ \E form \in Forms, d \in ClockSteps : StCreate(form, d)
    \/ \E g \in Slugs, d \in ClockSteps : StPublish(g, d)
    \/ \E g \in Slugs, d \in ClockSteps : StUnpublish(g, d)
    \/ \E g \in Slugs, d \in ClockSteps : StEditSave(g, TitleU, d)
    \/ \E g \in Slugs, flag \in BOOLEAN, d \in ClockSteps : StModelSave(g, flag, d)
    \/ \E g \in Slugs : StDelete(g)
    \/ \E g \in Slugs : StLoad(g)
    \/ StAll
    \/ StPublished
    \/ StTick

SpecStore == InitStore /\ [][NextStore]_vars

\* ------------------------------------------------------------------------
\* SpecAdmin: the admin blueprint (app/routes/admin.py), one action per
\* request; the session is what the client's cookie carries
\* ------------------------------------------------------------------------
PwGood == <<97>>
PwBad == <<97, 120>>
SaltOne == <<97, 49>>
\* a credential made by a tool that derives with the count check_password uses
LegacyHash == SaltOne \o <<DOLLAR>> \o KdfHex(PwGood, SaltOne, CheckIterations)
\* ADMIN_PASSWORD_HASH: unset, empty, made by hash_password, made by that tool
AdminHashes == {NoValue, <<>>, hash_password(PwGood, SaltOne), LegacyHash}
FormTokens == Tokens \cup {"absent", ""}
\* a title one character over the limit
FormLongTitle ==
    [slug |-> SlugA, title |-> [i \in 1..(TitleMax + 1) |-> 116], excerpt |-> ExcerptE,
     content |-> ContentC, tags |-> <<>>]
AdminForms == {FormA, FormBadSlug, FormBadTitle, FormLongTitle}

\* _ensure_csrf(): a token_urlsafe(32) value when the session has none
_ensure_csrf(sess, fresh) == IF sess.csrf = "unset" THEN [sess EXCEPT !.csrf = fresh] ELSE sess

\* the value token_urlsafe(32) returns when _ensure_csrf draws one: not a
\* value the client has sent in this request (it cannot be guessed); when
\* the session has a token none is drawn
Drawn(sess, fresh, token) ==
    IF sess.csrf = "unset" THEN fresh # token ELSE fresh = sess.csrf

\* mutant: an empty or absent token is let through
_verify_csrfLax(sess, token) == token \in {"absent", ""} \/ sess.csrf = token

\* _verify_csrf(form_token)
_verify_csrf(sess, token) == token \notin {"absent", ""} /\ sess.csrf = token

\* mutant: the decorator lets every session through
login_requiredOpen(sess) == TRUE

\* login_required: the wrapped view runs only for an authenticated session
login_required(sess) == sess.auth

\* mutant: logout leaves the flag in the session
LoggedOutStill(sess) == sess

\* session.pop('admin_authenticated', None)
LoggedOut(sess) == [sess EXCEPT !.auth = FALSE]

\* not admin_hash
NoCredential(h) == h = NoValue \/ h = <<>>

\* publish_article catches "ArticleNotFound", a name the module never
\* imports: any exception of Article.load ends in a NameError, a 500
PublishLoadFailed == 500

Response(route, method, c, token, pw, status, location) ==
    [route |-> route, method |-> method, client |-> c, token |-> token,
     password |-> pw, status |-> status, location |-> location]

RedirectToLogin(route, method, c, token) ==
    /\ resp' = Response(route, method, c, token, <<>>, 302, "login")
    /\ UNCHANGED <<session, files, author, now>>

\* who wrote: the files that differ get the authentication of the session
Stamp(c, fs) ==
    [n \in FileNames |->
        IF fs[n] # files[n] THEN (IF session[c].auth THEN "auth" ELSE "anon") ELSE author[n]]

InitAdmin ==
    /\ GuestIdle
    /\ RaceIdle
    /\ PwIdle
    /\ WriteIdle
    /\ StoreIdle
    /\ session = [c \in Clients |-> [csrf |-> "unset", auth |-> FALSE]]
    /\ adminHash \in AdminHashes
    /\ author = [n \in FileNames |-> "none"]
    /\ resp = NoResp

\* GET /admin/login
AdLoginGet(c, fresh) ==
    /\ Drawn(session[c], fresh, "absent")
    /\ session' = [session EXCEPT ![c] = _ensure_csrf(session[c], fresh)]
    /\ resp' = Response("login", "GET", c, "absent", <<>>, 200, "none")
    /\ last' = NoOp
    /\ UNCHANGED <<files, now, adminHash, author>>
    /\ UNCHANGED <<pwVars, writeVars, guestVars, raceVars>>

\* POST /admin/login
AdLoginPost(c, fresh, token, pw) ==
    /\ Drawn(session[c], fresh, token)
    /\ LET sess == _ensure_csrf(session[c], fresh)
       IN  IF ~_verify_csrf(sess, token)
           THEN /\ session' = [session EXCEPT ![c] = sess]
                /\ resp' = Response("login", "POST", c, token, pw, 400, "none")
           ELSE IF NoCredential(adminHash)
           THEN /\ session' = [session EXCEPT ![c] = sess]
                /\ resp' = Response("login", "POST", c, token, pw, 500, "none")
           ELSE IF check_password(adminHash, pw)
           THEN /\ session' = [session EXCEPT ![c] = [sess EXCEPT !.auth = TRUE]]
                /\ resp' = Response("login", "POST", c, token, pw, 302, "dashboard")
           ELSE /\ session' = [session EXCEPT ![c] = sess]
                /\ resp' = Response("login", "POST", c, token, pw, 200, "none")
    /\ last' = NoOp
    /\ UNCHANGED <<files, now, adminHash, author>>
    /\ UNCHANGED <<pwVars, writeVars, guestVars, raceVars>>

\* GET /admin/logout
AdLogout(c) ==
    /\ session' = [session EXCEPT ![c] = LoggedOut(session[c])]
    /\ resp' = Response("logout", "GET", c, "absent", <<>>, 302, "login")
    /\ last' = NoOp
    /\ UNCHANGED <<files, now, adminHash, author>>
    /\ UNCHANGED <<pwVars, writeVars, guestVars, raceVars>>

\* GET /admin/
AdDashboard(c) ==
    /\ IF ~login_required(session[c])
       THEN RedirectToLogin("dashboard", "GET", c, "absent")
       ELSE /\ resp' = Response("dashboard", "GET", c, "absent", <<>>, 200, "none")
            /\ UNCHANGED <<session, files, author, now>>
    /\ last' = NoOp
    /\ UNCHANGED adminHash
    /\ UNCHANGED <<pwVars, writeVars, guestVars, raceVars>>

\* GET /admin/articles/create
AdCreateGet(c, fresh) ==
    /\ Drawn(session[c], fresh, "absent")
    /\ IF ~login_required(session[c])
       THEN RedirectToLogin("create", "GET", c, "absent")
       ELSE /\ session' = [session EXCEPT ![c] = _ensure_csrf(session[c], fresh)]
            /\ resp' = Response("create", "GET", c, "absent", <<>>, 200, "none")
            /\ UNCHANGED <<files, author, now>>
    /\ last' = NoOp
    /\ UNCHANGED adminHash
    /\ UNCHANGED <<pwVars, writeVars, guestVars, raceVars>>

\* POST /admin/articles/create; the clock stands still in this specification
\* (every _now_iso() of a request reads the same instant)
AdCreatePost(c, fresh, token, form) ==
    /\ Drawn(session[c], fresh, token)
    /\ IF ~login_required(session[c])
       THEN /\ RedirectToLogin("create", "POST", c, token)
            /\ last' = NoOp
       ELSE LET sess == _ensure_csrf(session[c], fresh)
                r == create_from_form(files, form, now, now)
            IN  /\ session' = [session EXCEPT ![c] = sess]
                /\ IF ~_verify_csrf(sess, token)
                   THEN /\ resp' = Response("create", "POST", c, token, <<>>, 400, "none")
                        /\ last' = NoOp
                        /\ UNCHANGED <<files, author, now>>
                   ELSE IF r.status # "ok"
                   THEN /\ resp' = Response("create", "POST", c, token, <<>>, 400, "none")
                        /\ last' = SaveEvent("create_from_form", Strip(form.slug), r)
                        /\ UNCHANGED <<files, author, now>>
                   ELSE /\ resp' = Response("create", "POST", c, token, <<>>, 302, "dashboard")
                        /\ last' = SaveEvent("create_from_form", Strip(form.slug), r)
                        /\ files' = r.fs
                        /\ author' = Stamp(c, r.fs)
                        /\ UNCHANGED now
    /\ UNCHANGED adminHash
    /\ UNCHANGED <<pwVars, writeVars, guestVars, raceVars>>

\* POST /admin/articles/<slug>/publish
AdPublishPost(c, token, slug) ==
    /\ IF ~login_required(session[c])
       THEN RedirectToLogin("publish", "POST", c, token)
       ELSE LET r == publish(files, slug, now, now)
            IN  IF ~_verify_csrf(session[c], token)
                THEN /\ resp' = Response("publish", "POST", c, token, <<>>, 400, "none")
                     /\ UNCHANGED <<session, files, author, now>>
                ELSE IF r.status # "ok"
                THEN /\ resp' = Response("publish", "POST", c, token, <<>>, PublishLoadFailed, "none")
                     /\ UNCHANGED <<session, files, author, now>>
                ELSE /\ resp' = Response("publish", "POST", c, token, <<>>, 302, "dashboard")
                     /\ files' = r.fs
                     /\ author' = Stamp(c, r.fs)
                     /\ UNCHANGED now
                     /\ UNCHANGED session
    /\ last' = NoOp
    /\ UNCHANGED adminHash
    /\ UNCHANGED <<pwVars, writeVars, guestVars, raceVars>>

NextAdmin ==
    \/ \E c \in Clients, fresh \in Tokens : AdLoginGet(c, fresh)
    \/ \E c \in Clients, fresh \in Tokens, token \in FormTokens, pw \in {PwGood, PwBad} :
            AdLoginPost(c, fresh, token, pw)
    \/ \E c \in Clients : AdLogout(c)
    \/ \E c \in Clients : AdDashboard(c)
    \/ \E c \in Clients, fresh \in Tokens : AdCreateGet(c, fresh)
    \/ \E c \in Clients, fresh \in Tokens, token \in FormTokens, form \in AdminForms :
            AdCreatePost(c, fresh, token, form)
    \/ \E c \in Clients, token \in FormTokens, g \in Slugs :
            AdPublishPost(c, token, g)

SpecAdmin == InitAdmin /\ [][NextAdmin]_vars

\* ------------------------------------------------------------------------
\* SpecGuest: the public routes (app/routes/guest.py) over the record store
\* ------------------------------------------------------------------------
\* sorted(..., key=lambda a: a.created_at, reverse=True): the keys are the
\* ISO strings, compared as strings; the sort is stable, also when reversed
RECURSIVE InsertNewest(_, _)
InsertNewest(x, q) ==
    IF q = <<>> THEN <<x>>
    ELSE IF StrLess(Head(q).created_at, x.created_at) THEN <<x>> \o q
    ELSE <<Head(q)>> \o InsertNewest(x, Tail(q))

RECURSIVE SortedNewest(_, _)
SortedNewest(list, acc) ==
    IF list = <<>> THEN acc
    ELSE SortedNewest(Tail(list), InsertNewest(Head(list), acc))

\* the status of a request whose handler raised something no handler catches
Unhandled == 500

\* index(): GET /
index(fs, t) ==
    [route |-> "index", slug |-> <<>>, status |-> 200,
     articles |-> SortedNewest(published_articles(fs, t), <<>>), article |-> NoArticle]

\* article_detail(slug): GET /articles/<slug>. Whatever is raised inside the
\* try (ArticleNotFound, ValidationError, the NotFound of abort(404)) reaches
\* "except ArticleNotFound", a name the module never imports: evaluating it
\* raises NameError, which nothing catches
article_detail(fs, slug, t) ==
    LET l == load(fs, slug, t)
    IN  IF l.status = "ok" /\ l.rec.published
        THEN [route |-> "detail", slug |-> slug, status |-> 200, articles |-> <<>>,
              article |-> l.rec]
        ELSE [route |-> "detail", slug |-> slug, status |-> Unhandled, articles |-> <<>>,
              article |-> NoArticle]

InitGuest ==
    /\ PwIdle
    /\ WriteIdle
    /\ AdminIdle
    /\ RaceIdle
    /\ GuestIdle
    /\ \E fa \in {NoFile, Garbage, CutShort} :
        files = [n \in FileNames |->
                    IF n = _path(SlugA) THEN fa
                    ELSE IF n = _path(SlugAB) THEN (IF fa = NoFile THEN NoFile ELSE EmptyTitle)
                    ELSE IF n = CorruptName THEN Garbage
                    ELSE StrayText]
    /\ now = 0
    /\ last = NoOp

\* GET /
GuIndex ==
    /\ page' = index(files, now)
    /\ UNCHANGED <<pwVars, writeVars, storeVars, adminVars, raceVars>>

\* GET /articles/<slug>
GuDetail(slug) ==
    /\ page' = article_detail(files, slug, now)
    /\ UNCHANGED <<pwVars, writeVars, storeVars, adminVars, raceVars>>

\* between two public requests the store changes: article_service calls
GuCreate(form, d) ==
    /\ now + d <= MaxTime
    /\ files' = create_from_form(files, form, now, now + d).fs
    /\ now' = now + d
    /\ page' = NoPage
    /\ UNCHANGED <<pwVars, writeVars, last, adminVars, raceVars>>

GuPublish(slug, d) ==
    /\ now + d <= MaxTime
    /\ files' = publish(files, slug, now, now + d).fs
    /\ now' = now + d
    /\ page' = NoPage
    /\ UNCHANGED <<pwVars, writeVars, last, adminVars, raceVars>>

GuUnpublish(slug, d) ==
    /\ now + d <= MaxTime
    /\ files' = unpublish(files, slug, now, now + d).fs
    /\ now' = now + d
    /\ page' = NoPage
    /\ UNCHANGED <<pwVars, writeVars, last, adminVars, raceVars>>

GuDelete(slug) ==
    /\ files' = delete(files, slug).fs
    /\ page' = NoPage
    /\ UNCHANGED <<pwVars, writeVars, now, last, adminVars, raceVars>>

GuTick ==
    /\ now < MaxTime
    /\ now' = now + 1
    /\ page' = NoPage
    /\ UNCHANGED <<pwVars, writeVars, files, last, adminVars, raceVars>>

NextGuest ==
    \/ GuIndex
    \/ \E g \in Slugs : GuDetail(g)
    \/ \E form \in {FormA, FormAB}, d \in ClockSteps : GuCreate(form, d)
    \/ \E g \in Slugs, d \in ClockSteps : GuPublish(g, d)
    \/ \E g \in Slugs, d \in ClockSteps : GuUnpublish(g, d)
    \/ \E g \in Slugs : GuDelete(g)
    \/ GuTick

SpecGuest == InitGuest /\ [][NextGuest]_vars

\* ------------------------------------------------------------------------
\* SpecRace: load-mutate-save operations on one slug, run concurrently.
\* Each is a request of its own (publish, unpublish, or load, edit and
\* article_service.save); nothing orders the steps of one against another's
\* ------------------------------------------------------------------------
RaceSlug == SlugA

\* what the operation changes in the record it loaded
Mutated(kind, a) ==
    IF kind = "publish" THEN [a EXCEPT !.published = TRUE]
    ELSE IF kind = "unpublish" THEN [a EXCEPT !.published = FALSE]
    ELSE [a EXCEPT !.title = TitleU]

\* the directory before the operations start: the slug's record was saved
\* at clock 0, published or not
RaceStart(flag) ==
    save(EmptyDir, Article(RaceSlug, TitleT, ExcerptE, ContentC, <<>>, flag, 0), 0)

\* mutant: the payload is written straight into the target path
WriteDestInPlace(p) == "target"

\* where atomic_write puts the bytes: a mkstemp file of this call's own
WriteDest(p) == "temp"

\* f.write(data) takes the bytes in pieces; what is there after the first
FirstPart(text) == SubSeq(text, 1, Len(text) \div 2)

InitRace ==
    /\ PwIdle
    /\ WriteIdle
    /\ AdminIdle
    /\ GuestIdle
    /\ RaceIdle
    /\ \E flag \in BOOLEAN : files = RaceStart(flag)
    /\ now = 0
    /\ last = NoOp

\* a = Article.load(slug), then the change to the loaded object
RcLoad(p, kind) ==
    /\ opc[p] = "idle"
    /\ LET l == load(files, RaceSlug, now)
       IN  IF l.status = "ok"
           THEN /\ opc' = [opc EXCEPT ![p] = "loaded"]
                /\ orec' = [orec EXCEPT ![p] = Mutated(kind, l.rec)]
           ELSE /\ opc' = [opc EXCEPT ![p] = "done"]
                /\ UNCHANGED orec
    /\ okind' = [okind EXCEPT ![p] = kind]
    /\ UNCHANGED <<otmp, owrote>>
    /\ UNCHANGED <<pwVars, writeVars, storeVars, adminVars, guestVars>>

\* a.save() up to the first bytes written: updated_at, json.dumps, mkstemp
RcWriteSome(p) ==
    /\ opc[p] = "loaded"
    /\ opc' = [opc EXCEPT ![p] = "writing"]
    /\ orec' = [orec EXCEPT ![p] = Touched(orec[p], now)]
    /\ IF WriteDest(p) = "temp"
       THEN /\ otmp' = [otmp EXCEPT ![p] = FirstPart(to_json(Touched(orec[p], now)))]
            /\ UNCHANGED files
       ELSE /\ files' = [files EXCEPT ![_path(RaceSlug)] = FirstPart(to_json(Touched(orec[p], now)))]
            /\ UNCHANGED otmp
    /\ UNCHANGED <<okind, owrote, now, last>>
    /\ UNCHANGED <<pwVars, writeVars, adminVars, guestVars>>

\* the rest of the bytes; the with block closes the file
RcWriteRest(p) ==
    /\ opc[p] = "writing"
    /\ opc' = [opc EXCEPT ![p] = "written"]
    /\ IF WriteDest(p) = "temp"
       THEN /\ otmp' = [otmp EXCEPT ![p] = to_json(orec[p])]
            /\ UNCHANGED files
       ELSE /\ files' = [files EXCEPT ![_path(RaceSlug)] = to_json(orec[p])]
            /\ UNCHANGED otmp
    /\ UNCHANGED <<okind, orec, owrote, now, last>>
    /\ UNCHANGED <<pwVars, writeVars, adminVars, guestVars>>

\* tmp_path.replace(path): the target becomes this call's file; the finally
\* block finds no temp name left
RcReplace(p) ==
    /\ opc[p] = "written"
    /\ opc' = [opc EXCEPT ![p] = "done"]
    /\ IF WriteDest(p) = "temp"
       THEN files' = atomic_write(files, _path(RaceSlug), otmp[p])
       ELSE UNCHANGED files
    /\ otmp' = [otmp EXCEPT ![p] = NoFile]
    /\ owrote' = Append(owrote, p)
    /\ UNCHANGED <<okind, orec, now, last>>
    /\ UNCHANGED <<pwVars, writeVars, adminVars, guestVars>>

\* time passes between the steps
RcTick ==
    /\ now < MaxTime
    /\ now' = now + 1
    /\ UNCHANGED <<files, last>>
    /\ UNCHANGED <<pwVars, writeVars, adminVars, guestVars, raceVars>>

NextRace ==
    \/ \E p \in Ops, kind \in {"publish", "unpublish", "edit"} : RcLoad(p, kind)
    \/ \E p \in Ops : RcWriteSome(p)
    \/ \E p \in Ops : RcWriteRest(p)
    \/ \E p \in Ops : RcReplace(p)
    \/ RcTick

SpecRace == InitRace /\ [][NextRace]_vars

\* ------------------------------------------------------------------------
\* Claims on atomic_write
\* ------------------------------------------------------------------------

\* C1: at every step of every atomic_write call, the target path holds a
\* complete file (the content from before the calls or the whole payload of
\* one call), and every read a concurrent reader completes returned such a
\* complete content: never a partial and never a zero-length file.
C1_ReadersSeeOldOrNew ==
    /\ ReadTarget(dir, content) \in legit
    /\ rpc = "done" => rres \in legit
    /\ <<>> \notin legit

\* the reader got the whole new payload between the replace and the cleanup
\* of a call, while another call had written only part of its temp file
C1_Witness ==
    \E w \in Writers, v \in Writers :
        /\ rpc = "done"
        /\ wpc[w] = "replaced"
        /\ rres = wdata[w]
        /\ wpc[v] = "open"
        /\ Len(content[wino[v]]) \in 1..(PayloadLen - 1)

C6_HashThenCheck ==
    pwRes # "none" =>
        /\ pwIn # NoValue => (pwRes = "true" <=> pwTry = pwIn)
        /\ DollarAt(pwStored) = {} => pwRes = "false"

\* ------------------------------------------------------------------------
\* Claims on the record store
\* ------------------------------------------------------------------------
SaveOps == {"create_from_form", "publish", "unpublish", "save", "Article.save"}

\* what load() demands of a record: the four required fields are not empty
ValidRecord(a) ==
    a.slug # <<>> /\ a.title # <<>> /\ a.excerpt # <<>> /\ a.content # <<>>

\* C7: right after r.save() of a valid record r, Article.load(r.slug) returns
\* r's slug, title, excerpt, content, tags, published and created_at, and an
\* updated_at that is the clock reading of that save and is not earlier than
\* the updated_at r had before the save.
C7_SaveThenLoad ==
    (last.op \in SaveOps /\ last.status = "ok" /\ ValidRecord(last.before)) =>
        LET l == load(files, last.before.slug, now)
        IN  /\ l.status = "ok"
            /\ l.rec.slug = last.before.slug
            /\ l.rec.title = last.before.title
            /\ l.rec.excerpt = last.before.excerpt
            /\ l.rec.content = last.before.content
            /\ l.rec.tags = last.before.tags
            /\ l.rec.published = last.before.published
            /\ l.rec.created_at = last.before.created_at
            /\ l.rec.updated_at = _now_iso(now)
            /\ ParseIso(l.rec.updated_at) >= ParseIso(last.before.updated_at)

\* a published record with tags that was created earlier has just been saved
\* again at a later clock reading
C7_Witness ==
    /\ last.op \in SaveOps
    /\ last.status = "ok"
    /\ ValidRecord(last.before)
    /\ last.before.published
    /\ last.before.tags # <<>>
    /\ ParseIso(last.before.updated_at) < now
    /\ ParseIso(last.before.created_at) < ParseIso(last.before.updated_at)

\* the created_at and updated_at written in a file, when it is a JSON object
Stored(fs, slug, k) ==
    IF JsonOk(fs[_path(slug)]) /\ HasKey(fs[_path(slug)], k)
    THEN UnStr(Member(fs[_path(slug)], k))
    ELSE <<>>

\* C8: a save by create_from_form, publish, unpublish or the service's save
\* to a slug whose record file exists leaves the file's created_at as it was
\* and does not move its updated_at back.
C8_CreatedAtFixed ==
    [][\A g \in Slugs :
        (/\ last'.op \in {"create_from_form", "publish", "unpublish", "save"}
         /\ Stored(files, g, "created_at") # <<>>
         /\ Stored(files', g, "created_at") # <<>>)
        => /\ Stored(files', g, "created_at") = Stored(files, g, "created_at")
           /\ ParseIso(Stored(files', g, "updated_at")) >= ParseIso(Stored(files, g, "updated_at"))]_vars

\* C9: delete of a record whose file exists removes that file and no other,
\* and a load of the slug then fails with ArticleNotFound; delete of a record
\* whose file does not exist fails with ArticleNotFound and changes nothing.
C9_Delete ==
    [][last'.op = "delete" =>
        IF files[_path(last'.slug)] # NoFile
        THEN /\ last'.status = "ok"
             /\ files'[_path(last'.slug)] = NoFile
             /\ \A n \in FileNames \ {_path(last'.slug)} : files'[n] = files[n]
             /\ load(files', last'.slug, now').status = "ArticleNotFound"
        ELSE /\ last'.status = "ArticleNotFound"
             /\ files' = files]_vars

\* a delete has just removed one record while the other record is still there
C9_Witness ==
    /\ last.op = "delete"
    /\ last.status = "ok"
    /\ files[_path(last.slug)] = NoFile
    /\ \E g \in Slugs \ {last.slug} : load(files, g, now).status = "ok"

\* the *.json files that parse and pass from_dict
GoodNames(fs, t) ==
    {n \in DOMAIN fs : IsJsonName(n) /\ fs[n] # NoFile /\ ParseText(fs[n], t).status = "ok"}
PublishedNames(fs, t) == {n \in GoodNames(fs, t) : ParseText(fs[n], t).rec.published}

\* one record for each of these files and nothing else
ListsExactly(list, names, fs, t) ==
    /\ Len(list) = Cardinality(names)
    /\ \A n \in names : \E i \in 1..Len(list) : list[i] = ParseText(fs[n], t).rec

AscendingBySlug(list) ==
    \A i, j \in 1..Len(list) : i < j => StrLess(list[i].slug, list[j].slug)
AscendingByFileName(list) ==
    \A i, j \in 1..Len(list) : i < j => StrLess(_path(list[i].slug), _path(list[j].slug))

\* C10 as stated: all() does not raise, lists one record for every *.json file
\* that parses and validates and no other, in ascending slug order;
\* published_articles() lists those of them that are published, same order.
C10_AllBySlug ==
    /\ last.op = "all" =>
        /\ last.status = "ok"
        /\ ListsExactly(last.list, GoodNames(files, now), files, now)
        /\ AscendingBySlug(last.list)
    /\ last.op = "published_articles" =>
        /\ last.status = "ok"
        /\ ListsExactly(last.list, PublishedNames(files, now), files, now)
        /\ AscendingBySlug(last.list)

\* C10 amended: the order is that of the file names "<slug>.json", which is
\* not the order of the slugs ("a-b.json" sorts before "a.json").
C10_AllByFileName ==
    /\ last.op = "all" =>
        /\ last.status = "ok"
        /\ ListsExactly(last.list, GoodNames(files, now), files, now)
        /\ AscendingByFileName(last.list)
    /\ last.op = "published_articles" =>
        /\ last.status = "ok"
        /\ ListsExactly(last.list, PublishedNames(files, now), files, now)
        /\ AscendingByFileName(last.list)

\* all() has listed two records out of a directory that also holds a *.json
\* file that is not JSON, and one of the two is a draft
C10_Witness ==
    /\ last.op = "all"
    /\ Len(last.list) = 2
    /\ files[CorruptName] = Garbage
    /\ \E i \in 1..2 : ~last.list[i].published

\* ------------------------------------------------------------------------
\* Claims on the admin routes
\* ------------------------------------------------------------------------
CsrfRoutes == {"login", "create", "publish"}
GuardedRoutes == {"dashboard", "create", "publish", "logout"}

\* the token of the request is absent, empty or not the session's token
BadToken(c, token) == token \in {"absent", ""} \/ token # session[c].csrf

\* C3 as stated: a login, create or publish POST with a bad token gets 400,
\* changes no file and leaves admin_authenticated as it was.
C3_BadTokenIs400 ==
    [][(resp'.method = "POST" /\ resp'.route \in CsrfRoutes /\ BadToken(resp'.client, resp'.token))
        => /\ resp'.status = 400
           /\ files' = files
           /\ session'[resp'.client].auth = session[resp'.client].auth]_vars

\* C3 amended: such a POST changes no file and leaves admin_authenticated as
\* it was; it gets 400 when it is a login POST or comes from an authenticated
\* session, and the redirect to the login page when it is a create or publish
\* POST from a session that is not authenticated.
C3_BadTokenRejected ==
    [][(resp'.method = "POST" /\ resp'.route \in CsrfRoutes /\ BadToken(resp'.client, resp'.token))
        => /\ IF resp'.route = "login" \/ session[resp'.client].auth
              THEN resp'.status = 400
              ELSE resp'.status = 302 /\ resp'.location = "login"
           /\ files' = files
           /\ session'[resp'.client].auth = session[resp'.client].auth]_vars

\* an authenticated session, with a record on disk, has just had a POST
\* refused with 400 for a token that is another session's token
C3_Witness ==
    /\ resp.method = "POST"
    /\ resp.route \in {"create", "publish"}
    /\ resp.status = 400
    /\ resp.token \in Tokens
    /\ session[resp.client].auth
    /\ session[resp.client].csrf # resp.token
    /\ \E c \in Clients : session[c].csrf = resp.token
    /\ files[_path(SlugA)] # NoFile

\* C4: a request to the dashboard, to create, to publish or to logout from a
\* session that is not authenticated is answered with the redirect to the
\* login page and changes no file; and every file in the data directory was
\* written by a request of an authenticated session.
C4_LoginRequired ==
    [][/\ (resp'.route \in GuardedRoutes /\ ~session[resp'.client].auth)
            => /\ resp'.status = 302
               /\ resp'.location = "login"
               /\ files' = files
       /\ \A n \in FileNames : files'[n] # NoFile => author'[n] = "auth"]_vars

\* a record exists, and a session that is not authenticated but holds a valid
\* token has just been redirected away from the publish route
C4_Witness ==
    /\ resp.route = "publish"
    /\ resp.status = 302
    /\ resp.location = "login"
    /\ ~session[resp.client].auth
    /\ resp.token = session[resp.client].csrf
    /\ files[_path(SlugA)] # NoFile
    /\ author[_path(SlugA)] = "auth"

LoginPostBy(c) == resp'.route = "login" /\ resp'.method = "POST" /\ resp'.client = c

\* C5: a session that is not authenticated becomes authenticated in a step
\* exactly when the step is its login POST with its own token, a credential
\* is configured and check_password(credential, password) holds; a login
\* POST whose password does not verify or that finds no credential leaves
\* admin_authenticated as it was; logout leaves the session anonymous.
C5_LoginTransitions ==
    [][\A c \in Clients :
        /\ ~session[c].auth =>
            (session'[c].auth <=>
                /\ LoginPostBy(c)
                /\ ~BadToken(c, resp'.token)
                /\ ~NoCredential(adminHash)
                /\ check_password(adminHash, resp'.password))
        /\ (LoginPostBy(c) /\ (NoCredential(adminHash) \/ ~check_password(adminHash, resp'.password)))
            => session'[c].auth = session[c].auth
        /\ (resp'.route = "logout" /\ resp'.client = c) => ~session'[c].auth]_vars

\* one session has just logged in while the other, which had logged in
\* before, has logged out again
C5_Witness ==
    /\ resp.route = "login"
    /\ resp.method = "POST"
    /\ resp.status = 302
    /\ session[resp.client].auth
    /\ \E c \in Clients \ {resp.client} : ~session[c].auth /\ session[c].csrf # "unset"
    /\ files[_path(SlugA)] # NoFile

\* ------------------------------------------------------------------------
\* Claims on the public routes
\* ------------------------------------------------------------------------
\* the instants of the created_at stamps never increase along the list
NewestFirst(list) ==
    \A i, j \in 1..Len(list) :
        i < j => ParseIso(list[i].created_at) >= ParseIso(list[j].created_at)

\* the records Article.all() reads whose published flag is set, as a set
PublishedRecords(fs, t) == {r \in {all(fs, t)[i] : i \in 1..Len(all(fs, t))} : r.published}

\* C11: the public routes expose only published articles. GET / lists exactly
\* the articles whose published is true, newest first by created_at;
\* GET /articles/<slug> answers 200 with the article when its file exists and
\* published is true, and 404 when the slug has no file or the article is
\* not published.
C11_PublicRoutes ==
    /\ page.route = "index" =>
        /\ page.status = 200
        /\ {page.articles[i] : i \in 1..Len(page.articles)} = PublishedRecords(files, now)
        /\ Len(page.articles) = Cardinality(PublishedRecords(files, now))
        /\ NewestFirst(page.articles)
    /\ page.route = "detail" =>
        LET l == load(files, page.slug, now)
        IN  /\ (l.status = "ok" /\ l.rec.published) =>
                (page.status = 200 /\ page.article = l.rec)
            /\ (l.status = "ArticleNotFound" \/ (l.status = "ok" /\ ~l.rec.published)) =>
                page.status = 404

\* ------------------------------------------------------------------------
\* Claims on concurrent load-mutate-save
\* ------------------------------------------------------------------------
\* the complete files the slug may hold: the one from before the operations
\* and the record of every operation whose replace has happened
WholeRecords ==
    {RaceStart(flag)[_path(RaceSlug)] : flag \in BOOLEAN} \cup {to_json(orec[owrote[i]]) : i \in 1..Len(owrote)}

AllDone == \A p \in Ops : opc[p] = "done"

\* C12: concurrent load-mutate-save operations on one slug are not
\* serialized. At every step the file is one complete record (the one from
\* before, or the whole record of one operation), never a mixture; once all
\* have completed, the file is exactly the record written by the latest
\* replace, whatever the others had changed.
C12_LastWriterWins ==
    /\ files[_path(RaceSlug)] \in WholeRecords
    /\ (AllDone /\ owrote # <<>>) =>
            files[_path(RaceSlug)] = to_json(orec[owrote[Len(owrote)]])

\* both loaded the unpublished record before either saved; the first to
\* replace published it, the last one saved an edit of what it had loaded:
\* the file has the new title and is not published, the publish is lost
C12_Witness ==
    /\ AllDone
    /\ Len(owrote) >= 2
    /\ okind[owrote[1]] = "publish"
    /\ orec[owrote[1]].published
    /\ okind[owrote[Len(owrote)]] = "edit"
    /\ LET l == load(files, RaceSlug, now)
       IN  /\ l.status = "ok"
           /\ l.rec.title = TitleU
           /\ ~l.rec.published

\* ------------------------------------------------------------------------
\* Claims on create-article
\* ------------------------------------------------------------------------
\* the text is a record whose slug matches the pattern and names the file,
\* and whose title is trimmed and has 1 to 200 characters
RecordFileOk(n, text) ==
    /\ JsonOk(text)
    /\ HasKey(text, "slug")
    /\ HasKey(text, "title")
    /\ KebabCase(UnStr(Member(text, "slug")))
    /\ n = _path(UnStr(Member(text, "slug")))
    /\ Len(UnStr(Member(text, "title"))) \in 1..TitleMax
    /\ Strip(UnStr(Member(text, "title"))) = UnStr(Member(text, "title"))

CreatePost == resp'.route = "create" /\ resp'.method = "POST"

C14_CreatedIsReadable ==
    (last.op = "create_from_form" /\ last.status = "ok") =>
        /\ load(files, last.slug, now).status = "ok"
        /\ \E i \in 1..Len(all(files, now)) : all(files, now)[i].slug = last.slug

====
